---- MODULE Spec2Model ----
(***************************************************************************)
(* Context-selection engine of slack-llm-translate                          *)
(* (src/utils/context-manager.js): keyword extraction, relevance scoring,   *)
(* selection, budgeting and formatting of the conversation context; the     *)
(* conversation store and the handling of the /translate command            *)
(* (src/utils/base-handler.js, src/server.js, src/providers).               *)
(*                                                                          *)
(* A JavaScript string is a sequence of one-character strings, so that      *)
(* toLowerCase, the regular expressions, split and includes are computed    *)
(* character by character.  A message is a record [role, content,          *)
(* timestamp]; the objects of a history are identified by their position.   *)
(***************************************************************************)
EXTENDS Integers, Sequences, FiniteSets, TLC

VARIABLES env, CONFIG, conversationHistory, currentPrompt, pc,
          keywords, relevantMessages, truncatedMessages, context,
          relevance, stats, db, now, rows, requests

\* the conversation store and the commands in flight
storeVars == <<db, now, rows, requests>>

vars == <<env, CONFIG, conversationHistory, currentPrompt, pc,
          keywords, relevantMessages, truncatedMessages, context,
          relevance, stats, storeVars>>

----------------------------------------------------------------------------
(* Characters and JavaScript string primitives                              *)

UpperCase == <<"A","B","C","D","E","F","G","H","I","J","K","L","M",
               "N","O","P","Q","R","S","T","U","V","W","X","Y","Z">>

LowerCase == <<"a","b","c","d","e","f","g","h","i","j","k","l","m",
               "n","o","p","q","r","s","t","u","v","w","x","y","z">>

Digits == {"0","1","2","3","4","5","6","7","8","9"}

Range(s) == {s[i] : i \in 1..Len(s)}

UpperCaseLetters == Range(UpperCase)

\* \w of a JavaScript regular expression: [A-Za-z0-9_]
WordChars == Range(UpperCase) \cup Range(LowerCase) \cup Digits \cup {"_"}

IsWordChar(c) == c \in WordChars

\* \s of a JavaScript regular expression (the white space the inputs use)
IsSpace(c) == c \in {" ", "\t", "\n"}

LowerCaseOf ==
  [c \in UpperCaseLetters |-> LowerCase[CHOOSE i \in 1..26 : UpperCase[i] = c]]

toLowerChar(c) == IF c \in UpperCaseLetters THEN LowerCaseOf[c] ELSE c

\* String.prototype.toLowerCase
toLowerCase(text) == [i \in 1..Len(text) |-> toLowerChar(text[i])]

\* text.replace(/[^\w\s]/g, ' ')
replacePunctuation(text) ==
  [i \in 1..Len(text) |->
     IF IsWordChar(text[i]) \/ IsSpace(text[i]) THEN text[i] ELSE " "]

\* text.split(/\s+/): the pieces between maximal runs of white space; a run
\* at the start or at the end of the text leaves an empty piece there, and
\* the empty text splits into one empty piece.
RECURSIVE splitFrom(_, _, _, _)
splitFrom(text, i, piece, inRun) ==
  IF i > Len(text) THEN <<piece>>
  ELSE IF IsSpace(text[i])
       THEN IF inRun THEN splitFrom(text, i + 1, piece, TRUE)
            ELSE <<piece>> \o splitFrom(text, i + 1, <<>>, TRUE)
       ELSE splitFrom(text, i + 1, Append(piece, text[i]), FALSE)

splitWhitespace(text) == splitFrom(text, 1, <<>>, FALSE)

\* /^\d+$/.test(word)
IsPureNumber(word) == Len(word) > 0 /\ \A i \in 1..Len(word) : word[i] \in Digits

\* text.includes(word): word occurs as a contiguous run of text
includes(text, word) ==
  \E i \in 0..(Len(text) - Len(word)) :
     \A j \in 1..Len(word) : text[i + j] = word[j]

\* the characters of a word as one string, to look it up in a set of strings
RECURSIVE Str(_)
Str(word) == IF word = <<>> THEN "" ELSE word[1] \o Str(Tail(word))

\* Array.prototype.slice(begin, end) with JavaScript's negative indices;
\* begin and end are 0-based, end is exclusive.
sliceIndex(n, k) == IF k < 0 THEN (IF n + k < 0 THEN 0 ELSE n + k)
                    ELSE (IF k > n THEN n ELSE k)

slice(s, begin, end) ==
  SubSeq(s, sliceIndex(Len(s), begin) + 1, sliceIndex(Len(s), end))

\* Array.prototype.sort(compare) with a comparator that is the difference of
\* two numbers: each element is given as <<key, item>> and compare(a, b) is
\* a.key - b.key.  The sort is stable (ECMAScript 2019): insertion sort, an
\* element goes after every element it does not compare strictly before.
RECURSIVE insertSorted(_, _)
insertSorted(sorted, x) ==
  IF sorted = <<>> THEN <<x>>
  ELSE IF x[1] < sorted[Len(sorted)][1]
       THEN Append(insertSorted(SubSeq(sorted, 1, Len(sorted) - 1), x),
                   sorted[Len(sorted)])
       ELSE Append(sorted, x)

RECURSIVE stableSort(_)
stableSort(s) ==
  IF s = <<>> THEN <<>>
  ELSE insertSorted(stableSort(SubSeq(s, 1, Len(s) - 1)), s[Len(s)])

\* Array.prototype.map(pair => item)
items(s) == [i \in 1..Len(s) |-> s[i][2]]

----------------------------------------------------------------------------
(* Configuration: createConfig                                              *)

\* A setting of process.env: not set, a text that is not a number, or the
\* decimal text of the non-negative number n/d.
Unset == [kind |-> "unset", n |-> 0, d |-> 1]
NotNumeric == [kind |-> "text", n |-> 0, d |-> 1]
Number(n, d) == [kind |-> "number", n |-> n, d |-> d]

\* parseInt: NaN for undefined and for a text without leading digits, else
\* the integer part of the number
parseInt(v) == IF v.kind = "number" THEN [nan |-> FALSE, n |-> v.n \div v.d, d |-> 1]
               ELSE [nan |-> TRUE, n |-> 0, d |-> 1]

\* parseFloat: NaN for undefined and for a text without leading digits
parseFloat(v) == IF v.kind = "number" THEN [nan |-> FALSE, n |-> v.n, d |-> v.d]
                 ELSE [nan |-> TRUE, n |-> 0, d |-> 1]

\* variant: only NaN falls back to the default, 0 is kept (x ?? dflt after an
\* isNaN test)
orDefault_KeepZero(x, dflt) == IF x.nan THEN dflt ELSE [n |-> x.n, d |-> x.d]

\* x || dflt: NaN and 0 are falsy
orDefault(x, dflt) == IF x.nan \/ x.n = 0 THEN dflt ELSE [n |-> x.n, d |-> x.d]

createConfig(e) ==
  [MAX_CONTEXT_CHARS   |-> orDefault(parseInt(e.MAX_CONTEXT_CHARS), [n |-> 4000, d |-> 1]).n,
   MIN_RECENT_MESSAGES |-> orDefault(parseInt(e.MIN_RECENT_MESSAGES), [n |-> 3, d |-> 1]).n,
   MAX_RELEVANT_OLDER  |-> orDefault(parseInt(e.MAX_RELEVANT_OLDER), [n |-> 3, d |-> 1]).n,
   MIN_KEYWORD_LENGTH  |-> orDefault(parseInt(e.MIN_KEYWORD_LENGTH), [n |-> 4, d |-> 1]).n,
   RELEVANCE_THRESHOLD |-> orDefault(parseFloat(e.RELEVANCE_THRESHOLD), [n |-> 3, d |-> 10])]

----------------------------------------------------------------------------
(* extractKeywords                                                          *)

stopWords ==
  {"the", "be", "to", "of", "and", "a", "in", "that", "have", "i",
   "it", "for", "not", "on", "with", "he", "as", "you", "do", "at",
   "this", "but", "his", "by", "from", "they", "we", "say", "her", "she",
   "or", "an", "will", "my", "one", "all", "would", "there", "their",
   "what", "so", "up", "out", "if", "about", "who", "get", "which", "go",
   "me", "when", "make", "can", "like", "time", "no", "just", "him", "know",
   "take", "people", "into", "year", "your", "good", "some", "could", "them",
   "see", "other", "than", "then", "now", "look", "only", "come", "its", "over",
   "think", "also", "back", "after", "use", "two", "how", "our", "work",
   "first", "well", "way", "even", "new", "want", "because", "any", "these",
   "give", "day", "most", "us", "is", "are", "was", "were", "been", "has",
   "had", "does", "did", "am", "please", "thanks", "thank", "hello", "hi",
   "hey", "okay", "yes"}

\* variant: pure numbers are not filtered out
IsKeywordCandidate_NumbersKept(word, cfg) ==
  /\ Len(word) >= cfg.MIN_KEYWORD_LENGTH
  /\ Str(word) \notin stopWords

\* the filter predicate of lines 46-50
IsKeywordCandidate(word, cfg) ==
  /\ Len(word) >= cfg.MIN_KEYWORD_LENGTH
  /\ Str(word) \notin stopWords
  /\ ~IsPureNumber(word)

\* const words = text.toLowerCase().replace(...).split(/\s+/).filter(...)
keywordCandidates(text, cfg) ==
  SelectSeq(splitWhitespace(replacePunctuation(toLowerCase(text))),
            LAMBDA word : IsKeywordCandidate(word, cfg))

\* wordFreq[word] = (wordFreq[word] || 0) + 1 on the object literal {}.
\* wordFreq is the sequence of its own properties in insertion order, each
\* [word, freq, isNumber].  The object inherits from Object.prototype: the
\* first read of "constructor" finds the inherited function, which is truthy,
\* so the property is created holding a string (isNumber FALSE) and stays a
\* string; a read of "__proto__" finds the prototype object and the write of
\* a string to "__proto__" is ignored, so no property is ever created.
HasOwn(wordFreq, word) == \E i \in 1..Len(wordFreq) : wordFreq[i].word = word

countWord(wordFreq, word) ==
  IF HasOwn(wordFreq, word)
  THEN [i \in 1..Len(wordFreq) |->
          IF wordFreq[i].word = word /\ wordFreq[i].isNumber
          THEN [wordFreq[i] EXCEPT !.freq = @ + 1]
          ELSE wordFreq[i]]
  ELSE IF Str(word) = "__proto__" THEN wordFreq
  ELSE IF Str(word) = "constructor"
       THEN Append(wordFreq, [word |-> word, freq |-> 0, isNumber |-> FALSE])
  ELSE Append(wordFreq, [word |-> word, freq |-> 1, isNumber |-> TRUE])

\* words.forEach(word => ...)
RECURSIVE countWords(_, _)
countWords(wordFreq, words) ==
  IF words = <<>> THEN wordFreq
  ELSE countWords(countWord(wordFreq, words[1]), Tail(words))

\* the permutations of a sequence
permutationsOf(s) ==
  {[i \in 1..Len(s) |-> s[p[i]]] :
     p \in {q \in [1..Len(s) -> 1..Len(s)] : \A i, j \in 1..Len(s) : q[i] = q[j] => i = j}}

\* Object.entries(wordFreq).sort((a, b) => b[1] - a[1]).  A difference with a
\* string is NaN, which sort takes as 0.  With numbers only this is the
\* stable sort by descending frequency.  With a string entry the comparator
\* is consistent only if all the numbers are equal (the order is then kept);
\* otherwise ECMAScript leaves the order to the implementation.
sortEntries(entries) ==
  IF \A i \in 1..Len(entries) : entries[i].isNumber
  THEN {items(stableSort([i \in 1..Len(entries) |-> <<0 - entries[i].freq, entries[i]>>]))}
  ELSE IF \A i, j \in 1..Len(entries) :
            entries[i].isNumber /\ entries[j].isNumber => entries[i].freq = entries[j].freq
       THEN {entries}
       ELSE permutationsOf(entries)

\* the results extractKeywords(text) can return
extractKeywords(text, cfg) ==
  {[i \in 1..Len(slice(sorted, 0, 10)) |-> sorted[i].word] :
     sorted \in sortEntries(countWords(<<>>, keywordCandidates(text, cfg)))}

----------------------------------------------------------------------------
(* calculateRelevance                                                       *)

\* variant: the characters that are no word characters are removed, not
\* replaced by a blank
messageWords_PunctuationRemoved(messageText, cfg) ==
  Range(SelectSeq(splitWhitespace(SelectSeq(messageText,
                                            LAMBDA c : IsWordChar(c) \/ IsSpace(c))),
                  LAMBDA w : Len(w) >= cfg.MIN_KEYWORD_LENGTH))

\* new Set(messageText.replace(...).split(/\s+/).filter(w => w.length >= MIN))
messageWords(messageText, cfg) ==
  Range(SelectSeq(splitWhitespace(replacePunctuation(messageText)),
                  LAMBDA w : Len(w) >= cfg.MIN_KEYWORD_LENGTH))

\* variant: only the token set is consulted (no messageText.includes)
keywordMatches_TokensOnly(messageText, words, keyword) ==
  keyword \in words

\* messageWords.has(keyword) || messageText.includes(keyword)
keywordMatches(messageText, words, keyword) ==
  keyword \in words \/ includes(messageText, keyword)

\* variant: a keyword listed twice is counted once
calculateRelevance_Distinct(message, kws, cfg) ==
  IF Len(kws) = 0 THEN [n |-> 0, d |-> 1]
  ELSE LET messageText == toLowerCase(message.content)
           words == messageWords(messageText, cfg)
       IN  [n |-> Cardinality({k \in Range(kws) :
                                 keywordMatches(messageText, words, k)}),
            d |-> Len(kws)]

\* The score is the fraction n/d = matches / keywords.length, and 0 (0/1)
\* for the empty keyword list.
calculateRelevance(message, kws, cfg) ==
  IF Len(kws) = 0 THEN [n |-> 0, d |-> 1]
  ELSE LET messageText == toLowerCase(message.content)
           words == messageWords(messageText, cfg)
       IN  [n |-> Cardinality({i \in 1..Len(kws) :
                                 keywordMatches(messageText, words, kws[i])}),
            d |-> Len(kws)]

\* a >= b for fractions with positive denominators
AtLeast(a, b) == a.n * b.d >= b.n * a.d

----------------------------------------------------------------------------
(* selectRelevantMessages                                                   *)

\* The message objects of a history carry their position in it as ref (the
\* identity of the JavaScript object).

\* variant: one message too few in the recent window
recentMessages_OffByOne(history, cfg) ==
  slice(history, 1 - cfg.MIN_RECENT_MESSAGES, Len(history))

\* variant: the first messages of the history instead of the last
recentMessages_First(history, cfg) ==
  slice(history, 0, cfg.MIN_RECENT_MESSAGES)

\* conversationHistory.slice(-CONFIG.MIN_RECENT_MESSAGES)
recentMessages(history, cfg) ==
  slice(history, 0 - cfg.MIN_RECENT_MESSAGES, Len(history))

\* conversationHistory.slice(0, -CONFIG.MIN_RECENT_MESSAGES)
olderMessages(history, cfg) ==
  slice(history, 0, 0 - cfg.MIN_RECENT_MESSAGES)

\* olderMessages.map(msg => ({message: msg, score: calculateRelevance(...)}))
scoredMessages(older, kws, cfg) ==
  [i \in 1..Len(older) |->
     [message |-> older[i], score |-> calculateRelevance(older[i], kws, cfg)]]

\* variant: the eligible messages are cut to MAX_RELEVANT_OLDER without
\* sorting them by score
relevantOlder_NoSort(older, kws, cfg) ==
  LET eligible == SelectSeq(scoredMessages(older, kws, cfg),
                            LAMBDA item : AtLeast(item.score, cfg.RELEVANCE_THRESHOLD))
      top == slice(eligible, 0, cfg.MAX_RELEVANT_OLDER)
  IN  [i \in 1..Len(top) |-> top[i].message]

\* scoredMessages.filter(score >= threshold).sort((a, b) => b.score - a.score)
\*   .slice(0, MAX_RELEVANT_OLDER).map(item => item.message)
\* The scores of one call share their denominator, so b.score - a.score
\* orders by the numerators.
relevantOlder(older, kws, cfg) ==
  LET eligible == SelectSeq(scoredMessages(older, kws, cfg),
                            LAMBDA item : AtLeast(item.score, cfg.RELEVANCE_THRESHOLD))
      byScore == items(stableSort([i \in 1..Len(eligible) |->
                                     <<0 - eligible[i].score.n, eligible[i]>>]))
      top == slice(byScore, 0, cfg.MAX_RELEVANT_OLDER)
  IN  [i \in 1..Len(top) |-> top[i].message]

\* variant: the combined list is returned as concatenated, not sorted
sortByTimestamp_Unsorted(combined) == combined

\* combined.sort((a, b) => a.timestamp - b.timestamp)
sortByTimestamp(combined) ==
  items(stableSort([i \in 1..Len(combined) |-> <<combined[i].timestamp, combined[i]>>]))

\* variant: the history itself is sorted by score, not a copy of its
\* older part
historyAfterSelect_SortedInPlace(history, kws, cfg) ==
  items(stableSort([i \in 1..Len(history) |->
                      <<0 - calculateRelevance(history[i], kws, cfg).n, history[i]>>]))

\* The array passed as conversationHistory after the call: slice, map,
\* filter and the spread make new arrays, sort and unshift act on those, and
\* no message object is written to.
historyAfterSelect(history, kws, cfg) == history

\* kws is the result of extractKeywords(currentPrompt)
selectRelevantMessages(history, kws, cfg) ==
  IF Len(history) = 0 THEN <<>>
  ELSE IF Len(olderMessages(history, cfg)) = 0 THEN recentMessages(history, cfg)
  ELSE sortByTimestamp(relevantOlder(olderMessages(history, cfg), kws, cfg)
                         \o recentMessages(history, cfg))

----------------------------------------------------------------------------
(* truncateToCharLimit                                                      *)

\* msg.content.length + 30
msgSize(msg) == Len(msg.content) + 30

\* variant: a message that does not fit is skipped and the loop goes on
\* (continue for break)
RECURSIVE truncateLoop_Continue(_, _, _, _, _)
truncateLoop_Continue(messages, maxChars, i, totalChars, result) ==
  IF i < 1 THEN result
  ELSE IF totalChars + msgSize(messages[i]) > maxChars /\ Len(result) > 0
       THEN truncateLoop_Continue(messages, maxChars, i - 1, totalChars, result)
       ELSE truncateLoop_Continue(messages, maxChars, i - 1,
                                  totalChars + msgSize(messages[i]),
                                  <<messages[i]>> \o result)

\* variant: the test result.length > 0 is missing
RECURSIVE truncateLoop_NoMinimum(_, _, _, _, _)
truncateLoop_NoMinimum(messages, maxChars, i, totalChars, result) ==
  IF i < 1 THEN result
  ELSE IF totalChars + msgSize(messages[i]) > maxChars
       THEN result
       ELSE truncateLoop_NoMinimum(messages, maxChars, i - 1,
                                   totalChars + msgSize(messages[i]),
                                   <<messages[i]>> \o result)

\* the loop of lines 146-157, i running from the newest message down
RECURSIVE truncateLoop(_, _, _, _, _)
truncateLoop(messages, maxChars, i, totalChars, result) ==
  IF i < 1 THEN result
  ELSE IF totalChars + msgSize(messages[i]) > maxChars /\ Len(result) > 0
       THEN result
       ELSE truncateLoop(messages, maxChars, i - 1,
                         totalChars + msgSize(messages[i]), <<messages[i]>> \o result)

truncateToCharLimit(messages, maxChars) ==
  truncateLoop(messages, maxChars, Len(messages), 0, <<>>)

----------------------------------------------------------------------------
(* buildOptimizedContext                                                    *)

\* 'Conversation context:\n\n'
ContextHeader == <<"C","o","n","v","e","r","s","a","t","i","o","n"," ","c","o","n","t","e","x","t",":","\n","\n">>

\* '\n---\n\n'
ContextSeparator == <<"\n","-","-","-","\n","\n">>

\* the one-character markers: ">" stands for the arrow U+2192 and "*" for
\* the bullet U+2022
RecentPrefix == ">"
OlderPrefix == "*"

roleLabel(role) == IF role = "user" THEN <<"U","s","e","r">>
                   ELSE <<"A","s","s","i","s","t","a","n","t">>

\* variant: the recency test is index > count - MIN_RECENT_MESSAGES
contextLine_OffByOne(msg, index, count, cfg) ==
  LET isRecent == index > count - cfg.MIN_RECENT_MESSAGES
      prefix == IF isRecent THEN RecentPrefix ELSE OlderPrefix
  IN  <<prefix, " ">> \o roleLabel(msg.role) \o <<":", " ">> \o msg.content \o <<"\n">>

\* `${prefix} ${role}: ${msg.content}\n`
contextLine(msg, index, count, cfg) ==
  LET isRecent == index >= count - cfg.MIN_RECENT_MESSAGES
      prefix == IF isRecent THEN RecentPrefix ELSE OlderPrefix
  IN  <<prefix, " ">> \o roleLabel(msg.role) \o <<":", " ">> \o msg.content \o <<"\n">>

\* truncatedMessages.forEach((msg, index) => ...), index from 0
RECURSIVE contextLines(_, _, _)
contextLines(messages, index, cfg) ==
  IF index >= Len(messages) THEN <<>>
  ELSE contextLine(messages[index + 1], index, Len(messages), cfg)
         \o contextLines(messages, index + 1, cfg)

formatContext(truncated, cfg) ==
  IF Len(truncated) > 0
  THEN ContextHeader \o contextLines(truncated, 0, cfg) \o ContextSeparator
  ELSE <<>>

----------------------------------------------------------------------------
(* getContextStats                                                          *)

\* variant: the estimate of truncateToCharLimit (30 more per message)
RECURSIVE sumContentLengths_WithOverhead(_)
sumContentLengths_WithOverhead(msgs) ==
  IF msgs = <<>> THEN 0
  ELSE sumContentLengths_WithOverhead(SubSeq(msgs, 1, Len(msgs) - 1))
         + Len(msgs[Len(msgs)].content) + 30

\* truncatedMessages.reduce((sum, msg) => sum + msg.content.length, 0)
RECURSIVE sumContentLengths(_)
sumContentLengths(msgs) ==
  IF msgs = <<>> THEN 0
  ELSE sumContentLengths(SubSeq(msgs, 1, Len(msgs) - 1)) + Len(msgs[Len(msgs)].content)

\* The pairs <<maxChars, totalChars>>, for the budgets 60, 80 and 4000 and up
\* to 130 characters, whose percentage is a decimal tie (x.x5) while the
\* double that (totalChars / maxChars) * 100 evaluates to lies just below it.
BelowTie ==
  {<<80, t>> : t \in {23, 41, 51, 87, 97}}
    \cup {<<4000, t>> : t \in {6, 18, 22, 38, 46, 74, 78, 86, 102, 106, 118, 122, 126}}

\* ((totalChars / maxChars) * 100).toFixed(1), as a number of tenths: the
\* nearest tenth, the larger one at a tie of the double
toFixed1(totalChars, maxChars) ==
  LET nearest == (2000 * totalChars + maxChars) \div (2 * maxChars)
  IN  IF <<maxChars, totalChars>> \in BelowTie THEN nearest - 1 ELSE nearest

\* the statistics getContextStats(conversationHistory, currentPrompt) can
\* return, one for each keyword list extractKeywords can give
getContextStats(history, prompt, cfg) ==
  {LET selected == selectRelevantMessages(history, kws, cfg)
       truncated == truncateToCharLimit(selected, cfg.MAX_CONTEXT_CHARS)
       totalChars == sumContentLengths(truncated)
   IN  [totalMessages |-> Len(history),
        relevantMessages |-> Len(selected),
        includedMessages |-> Len(truncated),
        totalChars |-> totalChars,
        utilizationPercent |-> toFixed1(totalChars, cfg.MAX_CONTEXT_CHARS)] :
   kws \in extractKeywords(prompt, cfg)}

----------------------------------------------------------------------------
(* The conversation store: table messages and its prepared statements      *)

\* The table after CREATE TABLE: no rows; sequence is the largest id given
\* so far (AUTOINCREMENT).
EmptyDatabase == [messages |-> {}, sequence |-> 0]

\* a value no statement accepts for a NOT NULL column (undefined, null)
Null == <<"null">>

\* INSERT INTO messages (user_id, channel_id, role, content, timestamp): the
\* row is rejected by CHECK(role IN ('user', 'assistant')) and by NOT NULL.
insertMessage(database, userId, channelId, role, content, timestamp) ==
  IF role \in {"user", "assistant"} /\ content # Null
  THEN [messages |-> database.messages \cup
                       {[id |-> database.sequence + 1, user_id |-> userId,
                         channel_id |-> channelId, role |-> role,
                         content |-> content, timestamp |-> timestamp]},
        sequence |-> database.sequence + 1]
  ELSE database

\* the rows of a set in the order of their ids
byId(rowSet) ==
  [i \in 1..Cardinality(rowSet) |->
     CHOOSE r \in rowSet : Cardinality({q \in rowSet : q.id < r.id}) = i - 1]

\* variant: the channel is not part of the WHERE clause
getMessages_AnyChannel(database, userId, channelId, limit) ==
  LET matching == {r \in database.messages : r.user_id = userId}
      ordered == {p \in permutationsOf(byId(matching)) :
                    \A i \in 1..(Len(p) - 1) : p[i].timestamp >= p[i + 1].timestamp}
  IN  {[i \in 1..(IF limit < Len(p) THEN limit ELSE Len(p)) |->
          [role |-> p[i].role, content |-> p[i].content, timestamp |-> p[i].timestamp]] :
       p \in ordered}

\* SELECT role, content, timestamp FROM messages WHERE user_id = ? AND
\* channel_id = ? ORDER BY timestamp DESC LIMIT ?: the results the statement
\* can give; SQL leaves open the order of rows of equal timestamp.
getMessages(database, userId, channelId, limit) ==
  LET matching == {r \in database.messages :
                     r.user_id = userId /\ r.channel_id = channelId}
      ordered == {p \in permutationsOf(byId(matching)) :
                    \A i \in 1..(Len(p) - 1) : p[i].timestamp >= p[i + 1].timestamp}
  IN  {[i \in 1..(IF limit < Len(p) THEN limit ELSE Len(p)) |->
          [role |-> p[i].role, content |-> p[i].content, timestamp |-> p[i].timestamp]] :
       p \in ordered}

\* Array.prototype.reverse
reverse(s) == [i \in 1..Len(s) |-> s[Len(s) + 1 - i]]

\* getHistory(userId, channelId, limit): messages.reverse()
getHistory(database, userId, channelId, limit) ==
  {reverse(result) : result \in getMessages(database, userId, channelId, limit)}

\* DELETE FROM messages WHERE user_id = ? AND channel_id = ?
deleteMessages(database, userId, channelId) ==
  [database EXCEPT !.messages =
     {r \in @ : ~(r.user_id = userId /\ r.channel_id = channelId)}]

\* DELETE FROM messages WHERE timestamp < ?
cleanupOld(database, cutoffTime) ==
  [database EXCEPT !.messages = {r \in @ : ~(r.timestamp < cutoffTime)}]

\* Date.now() - (daysToKeep * 24 * 60 * 60 * 1000).  The model counts time
\* in days: a time stamp t stands for t * 24 * 60 * 60 * 1000 ms.
cutoffTime(clock, daysToKeep) == clock - daysToKeep

----------------------------------------------------------------------------
(* The /translate command: server.js and BaseHandler                       *)

\* db.getExtendedHistory(userId, channelId, 50)
HistoryLimit == 50

\* variant: the history is read after the user message was added
readHistory_AfterAppend(before, after, userId, channelId) ==
  getHistory(after, userId, channelId, HistoryLimit)

\* The history snapshots processTranslateCommand can get: line 100 reads
\* the table as it is before line 109 adds the user message (before), not as
\* it is afterwards (after).
readHistory(before, after, userId, channelId) ==
  getHistory(before, userId, channelId, HistoryLimit)

\* A command as received: the fields of req.body and what will go wrong
\* while its context is computed ("stats": getContextStats throws, line 104;
\* "context": buildContext throws in generate; "none").  step is where the
\* handler stands, log the steps taken, history the snapshot read, userRow
\* and assistantRow the ids of the rows added (0: none).
newRequest(key, command, text, fault) ==
  [user_id |-> key[1], channel_id |-> key[2], command |-> command,
   text |-> text, fault |-> fault, step |-> "received", log |-> <<>>,
   history |-> <<>>, stats |-> <<>>, answer |-> <<>>,
   userRow |-> 0, assistantRow |-> 0]

\* the catch block of processTranslateCommand, lines 139-150: the error
\* message is posted to response_url
catchError(request) ==
  [request EXCEPT !.step = "posting error", !.log = Append(@, "post error")]

\* variant: the command name is not looked at
processTranslateCommand_AnyCommand(database, request, history, statistics, clock) ==
  LET acknowledged == [request EXCEPT !.log = <<"acknowledge">>]
      read == [acknowledged EXCEPT !.history = history, !.log = Append(@, "read history")]
      counted == [read EXCEPT !.stats = <<statistics>>]
      added == insertMessage(database, request.user_id, request.channel_id,
                             "user", request.text, clock)
      appended == [counted EXCEPT !.userRow = added.sequence,
                                  !.log = Append(@, "append user")]
  IN  IF request.fault = "stats"
      THEN [database |-> database, request |-> catchError(read)]
      ELSE IF request.fault = "context"
      THEN [database |-> added, request |-> catchError(appended)]
      ELSE [database |-> added,
            request |-> [appended EXCEPT !.step = "generating",
                                         !.log = Append(@, "call LLM")]]

\* server.js lines 46-56 and processTranslateCommand up to the fetch of the
\* provider, which is the first await on input or output: acknowledge,
\* and for /translate read the history, compute the statistics, add the
\* user message, build the context and send the request to the LLM.  The
\* prompt template is a file outside the sources; the call is logged with
\* the snapshot it is given.  The result is the table and the request.
processTranslateCommand(database, request, history, statistics, clock) ==
  LET acknowledged == [request EXCEPT !.log = <<"acknowledge">>]
      read == [acknowledged EXCEPT !.history = history, !.log = Append(@, "read history")]
      counted == [read EXCEPT !.stats = <<statistics>>]
      added == insertMessage(database, request.user_id, request.channel_id,
                             "user", request.text, clock)
      appended == [counted EXCEPT !.userRow = added.sequence,
                                  !.log = Append(@, "append user")]
  IN  IF request.command # "/translate"
      THEN [database |-> database, request |-> [acknowledged EXCEPT !.step = "done"]]
      ELSE IF request.fault = "stats"
      THEN [database |-> database, request |-> catchError(read)]
      ELSE IF request.fault = "context"
      THEN [database |-> added, request |-> catchError(appended)]
      ELSE [database |-> added,
            request |-> [appended EXCEPT !.step = "generating",
                                         !.log = Append(@, "call LLM")]]

\* generate returns answer (Null: a response without text), lines 122-137:
\* the assistant message is added and the answer posted
generateReturns(database, request, answer, clock) ==
  LET added == insertMessage(database, request.user_id, request.channel_id,
                             "assistant", answer, clock)
  IN  [database |-> added,
       request |-> [request EXCEPT
                      !.answer = <<answer>>,
                      !.assistantRow = IF added = database THEN 0 ELSE added.sequence,
                      !.log = @ \o <<"append assistant", "post answer">>,
                      !.step = "posting answer"]]

----------------------------------------------------------------------------
(* Inputs                                                                   *)

\* bounds of the input families
MaxHistory == 4
MaxTies == 1
MaxPromptWords == 3

MaxKeywords == 2

MaxInserts == 2
MaxClock == 2
MaxLimit == 2

MaxRequests == 2

\* process.env settings the configuration is created from
PipelineEnvs ==
  [MAX_CONTEXT_CHARS   : {Unset, Number(60, 1), Number(80, 1)},
   MIN_RECENT_MESSAGES : {Number(0, 1), Number(2, 1)},
   MAX_RELEVANT_OLDER  : {Number(0, 1), Number(1, 1)},
   MIN_KEYWORD_LENGTH  : {Unset},
   RELEVANCE_THRESHOLD : {Number(0, 1), Number(1, 2)}]

\* no setting made: every value is the default
DefaultEnv ==
  [MAX_CONTEXT_CHARS   |-> Unset,
   MIN_RECENT_MESSAGES |-> Unset,
   MAX_RELEVANT_OLDER  |-> Unset,
   MIN_KEYWORD_LENGTH  |-> Unset,
   RELEVANCE_THRESHOLD |-> Unset]

\* the (userId, channelId) keys, the contents and the daysToKeep of the
\* store operations
StoreKeys == {<<"U1", "C1">>, <<"U1", "C2">>, <<"U2", "C1">>}
StoreContents == {<<"H","e","l","l","o",".">>}
CleanupDays == {1}

\* the commands received: two users in one channel
ServerKeys == {<<"U1", "C1">>, <<"U2", "C1">>}
Commands == {"/translate", "/help"}
Faults == {"none", "stats", "context"}
Answers == {<<"H","o","l","a",".">>, Null}

CallsEnvs ==
  [MAX_CONTEXT_CHARS   : {Unset, Number(80, 1)},
   MIN_RECENT_MESSAGES : {Number(2, 1)},
   MAX_RELEVANT_OLDER  : {Number(1, 1)},
   MIN_KEYWORD_LENGTH  : {Unset},
   RELEVANCE_THRESHOLD : {Number(1, 2)}]

KeywordEnvs ==
  [MAX_CONTEXT_CHARS   : {Unset},
   MIN_RECENT_MESSAGES : {Unset},
   MAX_RELEVANT_OLDER  : {Unset},
   MIN_KEYWORD_LENGTH  : {Unset, NotNumeric, Number(0, 1), Number(3, 1), Number(6, 1)},
   RELEVANCE_THRESHOLD : {Unset}]

TruncateEnvs ==
  [MAX_CONTEXT_CHARS   : {Unset, Number(40, 1), Number(50, 1), Number(80, 1)},
   MIN_RECENT_MESSAGES : {Unset},
   MAX_RELEVANT_OLDER  : {Unset},
   MIN_KEYWORD_LENGTH  : {Unset},
   RELEVANCE_THRESHOLD : {Unset}]

\* prompts of the pipeline
PromptRecipe == <<"W","h","a","t","'","s"," ","a"," ","g","o","o","d"," ","p","i","z","z","a"," ","d","o","u","g","h"," ","r","e","c","i","p","e","?">>
PromptNoKeyword == <<"H","i",","," ","t","h","e"," ","2","0","2","4"," ","p","i","e","?">>
Prompts == {PromptRecipe, PromptNoKeyword}

\* stored messages: role and content
MessageKinds ==
  {[role |-> "assistant", content |-> <<"P","i","z","z","a"," ","d","o","u","g","h"," ","r","e","c","i","p","e","!">>],
   [role |-> "user", content |-> <<"I"," ","l","o","v","e"," ","p","i","z","z","a">>],
   [role |-> "user", content |-> <<"H","e","l","l","o",".">>]}

\* The histories getHistory can return: up to MaxHistory messages, oldest
\* first, time stamps (Date.now() at the insert) non-decreasing, equal for at
\* most MaxTies adjacent pairs; ties is the set of positions whose time stamp
\* equals the one before.
historyOf(kinds, ties) ==
  [i \in 1..Len(kinds) |->
     [role |-> kinds[i].role, content |-> kinds[i].content,
      timestamp |-> i - Cardinality({j \in ties : j <= i}), ref |-> i]]

Histories ==
  UNION {{historyOf(kinds, ties) :
            kinds \in [1..n -> MessageKinds],
            ties \in {t \in SUBSET (2..n) : Cardinality(t) <= MaxTies}} :
         n \in 0..MaxHistory}

\* ten messages with content of length 40
RECURSIVE repeatChar(_, _)
repeatChar(c, n) == IF n = 0 THEN <<>> ELSE <<c>> \o repeatChar(c, n - 1)

TenMessages ==
  [i \in 1..10 |-> [role |-> IF i % 2 = 1 THEN "user" ELSE "assistant",
                    content |-> repeatChar("x", 40), timestamp |-> i, ref |-> i]]

\* prompts for extractKeywords: up to MaxPromptWords words separated by a
\* blank, alone or after ten distinct words
PromptWords == {<<"P","i","z","z","a">>,
               <<"p","i","z","z","a">>,
               <<"d","o","u","g","h","!">>,
               <<"t","h","e">>,
               <<"2","0","2","4">>,
               <<"p","i","e">>,
               <<"c","o","n","s","t","r","u","c","t","o","r">>,
               <<"_","_","p","r","o","t","o","_","_">>}
TailWords == {<<"P","i","z","z","a">>, <<"p","i","z","z","a">>, <<"d","o","u","g","h","!">>, <<"2","0","2","4">>}
TenWords == 
  <<"a","l","p","h","a"," ","b","r","a","v","o"," ","c","h","a","r","l","i","e"," ","d","e","l","t","a"," ","e","c","h","o">>
    \o <<" ","f","o","x","t","r","o","t"," ","g","o","l","f"," ","h","o","t","e","l"," ","i","n","d","i","a"," ","j","u","l","i","e","t">>

RECURSIVE joinWords(_)
joinWords(ws) == IF ws = <<>> THEN <<>>
                 ELSE IF Len(ws) = 1 THEN ws[1]
                 ELSE ws[1] \o <<" ">> \o joinWords(Tail(ws))

WordLists(words) == UNION {[1..n -> words] : n \in 0..MaxPromptWords}

KeywordPrompts ==
  {joinWords(ws) : ws \in WordLists(PromptWords)}
    \cup {joinWords(<<TenWords>> \o ws) : ws \in WordLists(TailWords)}

\* messages and keywords for calculateRelevance: a keyword list of up to
\* MaxKeywords of these words, which may repeat
RelevanceEnvs ==
  [MAX_CONTEXT_CHARS   : {Unset},
   MIN_RECENT_MESSAGES : {Unset},
   MAX_RELEVANT_OLDER  : {Unset},
   MIN_KEYWORD_LENGTH  : {Unset, Number(6, 1)},
   RELEVANCE_THRESHOLD : {Unset}]

RelevanceMessages ==
  {historyOf(<<kind>>, {}) :
     kind \in MessageKinds
                \cup {[role |-> "user", content |-> <<"S","t","a","r","t","-","u","p","!">>]}}

RelevanceKeywords == {<<"p","i","z","z","a">>,
                      <<"d","o","u","g","h">>,
                      <<"s","t","a","r","t">>,
                      <<"a","r","t">>,
                      <<"s","t","a","r","t","u","p">>,
                      <<"P","i","z","z","a">>}

KeywordLists == UNION {[1..n -> RelevanceKeywords] : n \in 0..MaxKeywords}

----------------------------------------------------------------------------
(* The state machine                                                        *)

NoOutput ==
  /\ keywords = <<>>
  /\ relevantMessages = <<>>
  /\ truncatedMessages = <<>>
  /\ context = <<>>
  /\ relevance = <<>>
  /\ stats = <<>>

\* no database opened and no command received
NoStore ==
  /\ db = EmptyDatabase
  /\ now = 0
  /\ rows = <<>>
  /\ requests = <<>>

\* a request for a context: configuration loaded, history read, prompt given
Init ==
  /\ env \in PipelineEnvs
  /\ CONFIG = createConfig(env)
  /\ conversationHistory \in Histories
  /\ currentPrompt \in Prompts
  /\ pc = "ready"
  /\ NoOutput
  /\ NoStore

\* buildOptimizedContext(conversationHistory, currentPrompt), lines 165-195.
\* selectRelevantMessages returns before extracting keywords when the
\* history is empty.
\* The function can be called again on the same arguments.
BuildOptimizedContext ==
  /\ pc \in {"ready", "done"}
  /\ \E kws \in extractKeywords(currentPrompt, CONFIG) :
       LET selected == selectRelevantMessages(conversationHistory, kws, CONFIG)
           truncated == truncateToCharLimit(selected, CONFIG.MAX_CONTEXT_CHARS)
       IN  /\ keywords' = IF Len(conversationHistory) = 0 THEN <<>> ELSE kws
           /\ relevantMessages' = selected
           /\ truncatedMessages' = truncated
           /\ context' = formatContext(truncated, CONFIG)
           /\ conversationHistory' = historyAfterSelect(conversationHistory, kws, CONFIG)
  /\ pc' = "done"
  /\ UNCHANGED <<env, CONFIG, currentPrompt, relevance, stats, storeVars>>

Next == BuildOptimizedContext

Spec == Init /\ [][Next]_vars

\* getContextStats(conversationHistory, currentPrompt), lines 200-213,
\* called before, after or between calls of buildOptimizedContext
GetContextStats ==
  /\ pc \in {"ready", "done"}
  /\ \E st \in getContextStats(conversationHistory, currentPrompt, CONFIG) :
       stats' = <<st>>
  /\ \E kws \in extractKeywords(currentPrompt, CONFIG) :
       conversationHistory' = historyAfterSelect(conversationHistory, kws, CONFIG)
  /\ UNCHANGED <<env, CONFIG, currentPrompt, pc, keywords, relevantMessages,
                 truncatedMessages, context, relevance, storeVars>>

InitCalls ==
  /\ env \in CallsEnvs
  /\ CONFIG = createConfig(env)
  /\ conversationHistory \in Histories
  /\ currentPrompt \in Prompts
  /\ pc = "ready"
  /\ NoOutput
  /\ NoStore

NextCalls == BuildOptimizedContext \/ GetContextStats

SpecCalls == InitCalls /\ [][NextCalls]_vars

\* The store used directly: messages added under some keys, histories
\* cleared, old messages cleaned up and histories read, while the clock
\* (Date.now()) advances.  A clock step is a day; messages added between two
\* steps share their time stamp.
InitStore ==
  /\ env = DefaultEnv
  /\ CONFIG = createConfig(env)
  /\ conversationHistory = <<>>
  /\ currentPrompt = <<>>
  /\ pc = "store"
  /\ NoOutput
  /\ NoStore

Tick ==
  /\ now < MaxClock
  /\ now' = now + 1
  /\ UNCHANGED <<env, CONFIG, conversationHistory, currentPrompt, pc, keywords,
                 relevantMessages, truncatedMessages, context, relevance, stats,
                 db, rows, requests>>

AddMessage ==
  /\ db.sequence < MaxInserts
  /\ \E key \in StoreKeys, role \in {"user", "assistant", "system"},
        content \in StoreContents \cup {Null} :
       db' = insertMessage(db, key[1], key[2], role, content, now)
  /\ rows' = <<>>
  /\ UNCHANGED <<env, CONFIG, conversationHistory, currentPrompt, pc, keywords,
                 relevantMessages, truncatedMessages, context, relevance, stats,
                 now, requests>>

ClearHistory ==
  /\ \E key \in StoreKeys : db' = deleteMessages(db, key[1], key[2])
  /\ rows' = <<>>
  /\ UNCHANGED <<env, CONFIG, conversationHistory, currentPrompt, pc, keywords,
                 relevantMessages, truncatedMessages, context, relevance, stats,
                 now, requests>>

CleanupOldMessages ==
  /\ \E daysToKeep \in CleanupDays :
       db' = cleanupOld(db, cutoffTime(now, daysToKeep))
  /\ rows' = <<>>
  /\ UNCHANGED <<env, CONFIG, conversationHistory, currentPrompt, pc, keywords,
                 relevantMessages, truncatedMessages, context, relevance, stats,
                 now, requests>>

\* rows holds the arguments and the result of a getHistory call until the
\* table is written to again
GetHistory ==
  /\ \E key \in StoreKeys, limit \in 0..MaxLimit :
       \E result \in getHistory(db, key[1], key[2], limit) :
          rows' = <<[userId |-> key[1], channelId |-> key[2], limit |-> limit,
                     result |-> result]>>
  /\ UNCHANGED <<env, CONFIG, conversationHistory, currentPrompt, pc, keywords,
                 relevantMessages, truncatedMessages, context, relevance, stats,
                 db, now, requests>>

NextStore == Tick \/ AddMessage \/ ClearHistory \/ CleanupOldMessages \/ GetHistory

SpecStore == InitStore /\ [][NextStore]_vars

\* The server: commands arrive at /slack/commands while others wait for the
\* LLM or for Slack.  A step runs from one await on input or output to the
\* next; between the awaits on the store nothing else runs.  Commands can
\* arrive within one millisecond; the clock is read as now.
InitServer ==
  /\ env = DefaultEnv
  /\ CONFIG = createConfig(env)
  /\ conversationHistory = <<>>
  /\ currentPrompt = <<>>
  /\ pc = "listening"
  /\ NoOutput
  /\ NoStore

\* a command arrives and is handled up to its first await on the network
ReceiveCommand ==
  /\ Len(requests) < MaxRequests
  /\ \E key \in ServerKeys, command \in Commands, text \in StoreContents,
        fault \in Faults :
       LET request == newRequest(key, command, text, fault)
           afterAppend == insertMessage(db, key[1], key[2], "user", text, now)
       IN  \E history \in readHistory(db, afterAppend, key[1], key[2]) :
           \E statistics \in getContextStats(history, text, CONFIG) :
             LET result == processTranslateCommand(db, request, history, statistics, now)
             IN  /\ db' = result.database
                 /\ requests' = Append(requests, result.request)
  /\ UNCHANGED <<env, CONFIG, conversationHistory, currentPrompt, pc, keywords,
                 relevantMessages, truncatedMessages, context, relevance, stats,
                 now, rows>>

\* The LLM answers the call of a command.  The call takes time: the clock
\* has advanced when it returns or throws.
GenerateReturns ==
  /\ \E i \in 1..Len(requests), answer \in Answers :
       /\ requests[i].step = "generating"
       /\ LET result == generateReturns(db, requests[i], answer, now + 1)
          IN  /\ db' = result.database
              /\ requests' = [requests EXCEPT ![i] = result.request]
  /\ now' = now + 1
  /\ UNCHANGED <<env, CONFIG, conversationHistory, currentPrompt, pc, keywords,
                 relevantMessages, truncatedMessages, context, relevance, stats,
                 rows>>

\* the call fails (no connection, a status that is not ok, a malformed
\* response): generate throws
GenerateThrows ==
  /\ \E i \in 1..Len(requests) :
       /\ requests[i].step = "generating"
       /\ requests' = [requests EXCEPT ![i] = catchError(@)]
  /\ now' = now + 1
  /\ UNCHANGED <<env, CONFIG, conversationHistory, currentPrompt, pc, keywords,
                 relevantMessages, truncatedMessages, context, relevance, stats,
                 db, rows>>

\* the post of the answer to response_url fails: fetch throws inside try
PostAnswerThrows ==
  /\ \E i \in 1..Len(requests) :
       /\ requests[i].step = "posting answer"
       /\ requests' = [requests EXCEPT ![i] = catchError(@)]
  /\ UNCHANGED <<env, CONFIG, conversationHistory, currentPrompt, pc, keywords,
                 relevantMessages, truncatedMessages, context, relevance, stats,
                 db, now, rows>>

\* the post of the answer or of the error message is over
PostCompletes ==
  /\ \E i \in 1..Len(requests) :
       /\ requests[i].step \in {"posting answer", "posting error"}
       /\ requests' = [requests EXCEPT ![i].step = "done"]
  /\ UNCHANGED <<env, CONFIG, conversationHistory, currentPrompt, pc, keywords,
                 relevantMessages, truncatedMessages, context, relevance, stats,
                 db, now, rows>>

NextServer ==
  ReceiveCommand \/ GenerateReturns \/ GenerateThrows
    \/ PostAnswerThrows \/ PostCompletes

SpecServer == InitServer /\ [][NextServer]_vars

\* extractKeywords applied to a prompt
InitKeywords ==
  /\ env \in KeywordEnvs
  /\ CONFIG = createConfig(env)
  /\ conversationHistory = <<>>
  /\ currentPrompt \in KeywordPrompts
  /\ pc = "extract"
  /\ NoOutput
  /\ NoStore

ExtractKeywords ==
  /\ pc = "extract"
  /\ keywords' \in extractKeywords(currentPrompt, CONFIG)
  /\ pc' = "extracted"
  /\ UNCHANGED <<env, CONFIG, conversationHistory, currentPrompt,
                 relevantMessages, truncatedMessages, context,
                 relevance, stats, storeVars>>

NextKeywords == ExtractKeywords

SpecKeywords == InitKeywords /\ [][NextKeywords]_vars

\* truncateToCharLimit applied to a message sequence (held in
\* relevantMessages) and a budget (CONFIG.MAX_CONTEXT_CHARS)
InitTruncate ==
  /\ env \in TruncateEnvs
  /\ CONFIG = createConfig(env)
  /\ conversationHistory = <<>>
  /\ currentPrompt = <<>>
  /\ pc = "truncate"
  /\ keywords = <<>>
  /\ relevantMessages \in Histories \cup {TenMessages}
  /\ truncatedMessages = <<>>
  /\ context = <<>>
  /\ relevance = <<>>
  /\ stats = <<>>
  /\ NoStore

TruncateToCharLimit ==
  /\ pc = "truncate"
  /\ truncatedMessages' = truncateToCharLimit(relevantMessages, CONFIG.MAX_CONTEXT_CHARS)
  /\ pc' = "truncated"
  /\ UNCHANGED <<env, CONFIG, conversationHistory, currentPrompt,
                 keywords, relevantMessages, context,
                 relevance, stats, storeVars>>

NextTruncate == TruncateToCharLimit

SpecTruncate == InitTruncate /\ [][NextTruncate]_vars

\* The settings createConfig is applied to: each variable absent, a text that
\* is not a number, 0, or a positive number (an integer for the four
\* settings read with parseInt)
ConfigEnvs ==
  [MAX_CONTEXT_CHARS   : {Unset, NotNumeric, Number(0, 1), Number(80, 1)},
   MIN_RECENT_MESSAGES : {Unset, NotNumeric, Number(0, 1), Number(2, 1)},
   MAX_RELEVANT_OLDER  : {Unset, NotNumeric, Number(0, 1), Number(1, 1)},
   MIN_KEYWORD_LENGTH  : {Unset, NotNumeric, Number(0, 1), Number(6, 1)},
   RELEVANCE_THRESHOLD : {Unset, NotNumeric, Number(0, 1), Number(1, 2), Number(1, 1)}]

\* the process before the module is loaded: process.env is set, CONFIG is
\* not yet created
InitConfig ==
  /\ env \in ConfigEnvs
  /\ CONFIG = <<>>
  /\ conversationHistory = <<>>
  /\ currentPrompt = <<>>
  /\ pc = "load"
  /\ NoOutput
  /\ NoStore

\* const CONFIG = createConfig(), line 19
CreateConfig ==
  /\ pc = "load"
  /\ CONFIG' = createConfig(env)
  /\ pc' = "configured"
  /\ UNCHANGED <<env, conversationHistory, currentPrompt, keywords,
                 relevantMessages, truncatedMessages, context, relevance,
                 stats, storeVars>>

NextConfig == CreateConfig

SpecConfig == InitConfig /\ [][NextConfig]_vars

\* calculateRelevance applied to a message (the one of conversationHistory)
\* and a keyword list, then to the list with one more keyword
InitRelevance ==
  /\ env \in RelevanceEnvs
  /\ CONFIG = createConfig(env)
  /\ conversationHistory \in RelevanceMessages
  /\ currentPrompt = <<>>
  /\ pc = "score"
  /\ keywords \in KeywordLists
  /\ relevantMessages = <<>>
  /\ truncatedMessages = <<>>
  /\ context = <<>>
  /\ relevance = <<>>
  /\ stats = <<>>
  /\ NoStore

CalculateRelevance ==
  /\ pc = "score"
  /\ relevance' = <<calculateRelevance(conversationHistory[1], keywords, CONFIG)>>
  /\ pc' = "scored"
  /\ UNCHANGED <<env, CONFIG, conversationHistory, currentPrompt, keywords,
                 relevantMessages, truncatedMessages, context, stats, storeVars>>

CalculateRelevanceWithOneMore ==
  /\ pc = "scored"
  /\ \E keyword \in RelevanceKeywords : keywords' = Append(keywords, keyword)
  /\ relevance' = <<calculateRelevance(conversationHistory[1], keywords', CONFIG)>>
  /\ pc' = "rescored"
  /\ UNCHANGED <<env, CONFIG, conversationHistory, currentPrompt,
                 relevantMessages, truncatedMessages, context, stats, storeVars>>

NextRelevance == CalculateRelevance \/ CalculateRelevanceWithOneMore

SpecRelevance == InitRelevance /\ [][NextRelevance]_vars

----------------------------------------------------------------------------
(* Properties of selectRelevantMessages                                     *)

SortedByTimestamp(messages) ==
  \A i, j \in 1..Len(messages) : i < j => messages[i].timestamp <= messages[j].timestamp

\* every element is a message object of the history, none occurs twice
NoDuplicates(messages, history) ==
  /\ \A i \in 1..Len(messages) :
       messages[i].ref \in 1..Len(history) /\ messages[i] = history[messages[i].ref]
  /\ \A i, j \in 1..Len(messages) : i # j => messages[i].ref # messages[j].ref

\* the elements are message objects of the history in the history's order
IsSubsequence(messages, history) ==
  /\ \A i \in 1..Len(messages) :
       messages[i].ref \in 1..Len(history) /\ messages[i] = history[messages[i].ref]
  /\ \A i, j \in 1..Len(messages) : i < j => messages[i].ref < messages[j].ref

StrictlyIncreasingTimestamps(history) ==
  \A i \in 1..(Len(history) - 1) : history[i].timestamp < history[i + 1].timestamp

\* C1 as stated: for every history with non-decreasing time stamps the
\* selector output is sorted by time stamp, has no message twice and is a
\* subsequence of the history.
C1_SortedSubsequence ==
  pc = "done" =>
    /\ SortedByTimestamp(relevantMessages)
    /\ NoDuplicates(relevantMessages, conversationHistory)
    /\ IsSubsequence(relevantMessages, conversationHistory)

\* C1 amended: the selector output is sorted by time stamp ascending and has
\* no message twice; it is a subsequence of the history when the time stamps
\* of the history are strictly increasing.
C1_SortedNoDuplicates ==
  pc = "done" =>
    /\ SortedByTimestamp(relevantMessages)
    /\ NoDuplicates(relevantMessages, conversationHistory)
    /\ StrictlyIncreasingTimestamps(conversationHistory)
         => IsSubsequence(relevantMessages, conversationHistory)

\* an older message was selected ahead of the recent window, from a history
\* with two equal time stamps
C1_Witness ==
  /\ pc = "done"
  /\ ~StrictlyIncreasingTimestamps(conversationHistory)
  /\ Len(relevantMessages) > CONFIG.MIN_RECENT_MESSAGES
  /\ Len(relevantMessages) < Len(conversationHistory)

----------------------------------------------------------------------------
(* Properties of truncateToCharLimit                                        *)

IsSuffix(result, messages) ==
  /\ Len(result) <= Len(messages)
  /\ result = SubSeq(messages, Len(messages) - Len(result) + 1, Len(messages))

\* C2: the output of truncateToCharLimit is a contiguous suffix of its input
\* in the same order: when a message is kept, every message after it in the
\* input is kept too.
C2_ContiguousSuffix ==
  pc = "truncated" =>
    /\ IsSuffix(truncatedMessages, relevantMessages)
    /\ \A i, j \in 1..Len(relevantMessages) :
         (i < j /\ \E k \in 1..Len(truncatedMessages) :
                      truncatedMessages[k].ref = relevantMessages[i].ref)
           => \E k \in 1..Len(truncatedMessages) :
                 truncatedMessages[k].ref = relevantMessages[j].ref

\* the budget cut the input: some but not all messages were kept
C2_Witness ==
  /\ pc = "truncated"
  /\ Len(truncatedMessages) >= 2
  /\ Len(truncatedMessages) < Len(relevantMessages)

\* sum over the messages of content length + 30
RECURSIVE TotalSize(_)
TotalSize(messages) ==
  IF messages = <<>> THEN 0
  ELSE Len(messages[1].content) + 30 + TotalSize(Tail(messages))

\* C3: for a non-empty input the result is non-empty and its total size is at
\* most the budget, except when the newest message alone exceeds the budget,
\* and then the result is exactly that message; with budget 50 and ten
\* messages of content length 40 the result is the newest message.
C3_WithinBudget ==
  pc = "truncated" /\ relevantMessages # <<>> =>
    LET newest == relevantMessages[Len(relevantMessages)]
        budget == CONFIG.MAX_CONTEXT_CHARS
    IN  /\ truncatedMessages # <<>>
        /\ IF Len(newest.content) + 30 > budget
           THEN truncatedMessages = <<newest>>
           ELSE TotalSize(truncatedMessages) <= budget
        /\ (relevantMessages = TenMessages /\ budget = 50)
             => truncatedMessages = <<TenMessages[10]>>

\* the scenario: budget 50, ten messages of content length 40
C3_Witness ==
  /\ pc = "truncated"
  /\ relevantMessages = TenMessages
  /\ CONFIG.MAX_CONTEXT_CHARS = 50
  /\ Len(truncatedMessages) = 1

----------------------------------------------------------------------------
(* Properties of the selection                                              *)

\* positions of the recent window: the last MIN_RECENT_MESSAGES entries of
\* the history, all of it when shorter
OlderCount ==
  IF Len(conversationHistory) > CONFIG.MIN_RECENT_MESSAGES
  THEN Len(conversationHistory) - CONFIG.MIN_RECENT_MESSAGES ELSE 0

RecentWindow == SubSeq(conversationHistory, OlderCount + 1, Len(conversationHistory))

Contains(messages, msg) == \E k \in 1..Len(messages) : messages[k] = msg

\* score of the history's i-th message against the extracted keywords
Score(i) == calculateRelevance(conversationHistory[i], keywords, CONFIG)

Greater(a, b) == a.n * b.d > b.n * a.d

\* C4: when the history has at most minRecentMessages entries, the selector
\* returns the whole history in its original order, whatever the relevance
\* of its messages; the empty history gives the empty result.
C4_ShortHistoryUnchanged ==
  pc = "done" /\ Len(conversationHistory) <= CONFIG.MIN_RECENT_MESSAGES =>
    relevantMessages = conversationHistory

\* a history of exactly minRecentMessages entries, one of them without any
\* keyword of the prompt
C4_Witness ==
  /\ pc = "done"
  /\ Len(conversationHistory) = CONFIG.MIN_RECENT_MESSAGES
  /\ keywords # <<>>
  /\ \E i \in 1..Len(conversationHistory) : Score(i).n = 0
  /\ relevantMessages = conversationHistory

\* C5: every message of the recent window appears in the selector output,
\* independently of its relevance score and of the keywords.
C5_RecentWindowSelected ==
  pc = "done" =>
    \A i \in (OlderCount + 1)..Len(conversationHistory) :
       Contains(relevantMessages, conversationHistory[i])

\* a history longer than the window whose newest message matches no keyword
C5_Witness ==
  /\ pc = "done"
  /\ OlderCount > 0
  /\ keywords # <<>>
  /\ Score(Len(conversationHistory)).n = 0
  /\ Contains(relevantMessages, conversationHistory[Len(conversationHistory)])

\* the scores of the older messages against the extracted keywords
OlderScores == [i \in 1..OlderCount |-> Score(i)]

\* the older messages with score >= relevanceThreshold
Eligible(score) ==
  {i \in DOMAIN score : AtLeast(score[i], CONFIG.RELEVANCE_THRESHOLD)}

\* the eligible messages that rank before i: higher score, or equal score
\* and earlier in the history
RankedBefore(score, i) ==
  {j \in Eligible(score) : Greater(score[j], score[i])
                             \/ (score[j] = score[i] /\ j < i)}

\* the older messages in the selector output
SelectedOlder ==
  {relevantMessages[k].ref : k \in {m \in 1..Len(relevantMessages) :
                                      relevantMessages[m].ref <= OlderCount}}

\* C7: the selected messages outside the recent window are exactly the
\* first maxRelevantOlder eligible older messages in the order score
\* descending, ties chronological: each has score >= relevanceThreshold,
\* there are at most maxRelevantOlder, and no excluded eligible message has
\* a strictly higher score than an included one.
C7_TopRelevantOlder ==
  pc = "done" =>
    LET score == OlderScores
        eligible == Eligible(score)
        selected == SelectedOlder
    IN  /\ selected = {i \in eligible :
                         Cardinality(RankedBefore(score, i)) < CONFIG.MAX_RELEVANT_OLDER}
        /\ selected \subseteq eligible
        /\ Cardinality(selected) <= CONFIG.MAX_RELEVANT_OLDER
        /\ \A i \in selected : \A j \in eligible \ selected :
             ~Greater(score[j], score[i])

\* more eligible older messages than maxRelevantOlder, and a later one with
\* a higher score selected in place of an earlier one
C7_Witness ==
  /\ pc = "done"
  /\ LET score == OlderScores
         eligible == Eligible(score)
         selected == SelectedOlder
     IN  /\ Cardinality(eligible) > CONFIG.MAX_RELEVANT_OLDER
         /\ \E i \in selected : \E j \in eligible \ selected :
              Greater(score[i], score[j]) /\ j < i

----------------------------------------------------------------------------
(* Properties of buildOptimizedContext                                      *)

\* C6: the context block always includes the last MIN_RECENT_MESSAGES
\* messages of the history (all messages when the history is shorter).
C6_RecentAlwaysInContext ==
  pc = "done" =>
    \A i \in (OlderCount + 1)..Len(conversationHistory) :
       /\ Contains(truncatedMessages, conversationHistory[i])
       /\ includes(context, conversationHistory[i].content \o <<"\n">>)

\* the pieces of text between its line feeds
LinesOf(text) ==
  LET feeds == {i \in 1..Len(text) : text[i] = "\n"}
      feed(k) == IF k = 0 THEN 0
                 ELSE IF k > Cardinality(feeds) THEN Len(text) + 1
                 ELSE CHOOSE i \in feeds : Cardinality({j \in feeds : j < i}) = k - 1
  IN  [k \in 1..(Cardinality(feeds) + 1) |->
         SubSeq(text, feed(k - 1) + 1, feed(k) - 1)]

HeaderLine ==
  <<"C","o","n","v","e","r","s","a","t","i","o","n"," ","c","o","n","t","e","x","t",":">>

\* the line of the k-th budgeted message, k from 1
ExpectedLine(k) ==
  LET msg == truncatedMessages[k]
      marker == IF k > Len(truncatedMessages) - CONFIG.MIN_RECENT_MESSAGES
                THEN ">" ELSE "*"
      label == CASE msg.role = "user" -> <<"U","s","e","r">>
                 [] msg.role = "assistant" -> <<"A","s","s","i","s","t","a","n","t">>
  IN  <<marker, " ">> \o label \o <<":", " ">> \o msg.content

\* C13: the context is the empty string when no message is left after
\* budgeting (so for the empty history), and otherwise a header line, an empty
\* line, one line per budgeted message in their order, and the separator
\* (an empty line, a line of three dashes, an empty line); a message line is
\* marked recent exactly for the last MIN_RECENT_MESSAGES budgeted messages
\* and names the role User or Assistant.
C13_ContextLayout ==
  pc = "done" =>
    LET count == Len(truncatedMessages)
        lines == LinesOf(context)
    IN  /\ conversationHistory = <<>> => count = 0
        /\ count = 0 => context = <<>>
        /\ count > 0 =>
             /\ Len(lines) = count + 6
             /\ lines[1] = HeaderLine /\ lines[2] = <<>>
             /\ \A k \in 1..count : lines[k + 2] = ExpectedLine(k)
             /\ lines[count + 3] = <<>>
             /\ lines[count + 4] = <<"-","-","-">>
             /\ lines[count + 5] = <<>> /\ lines[count + 6] = <<>>
             /\ \A k \in 1..(count - 1) :
                  truncatedMessages[k].timestamp <= truncatedMessages[k + 1].timestamp

\* a context of both kinds of lines and both roles
C13_Witness ==
  /\ pc = "done"
  /\ Len(truncatedMessages) > CONFIG.MIN_RECENT_MESSAGES
  /\ CONFIG.MIN_RECENT_MESSAGES > 0
  /\ \E k \in 1..Len(truncatedMessages) : truncatedMessages[k].role = "user"
  /\ \E k \in 1..Len(truncatedMessages) : truncatedMessages[k].role = "assistant"
  /\ context # <<>>

\* the message lines of a context
MessageLineCount(text) ==
  IF text = <<>> THEN 0 ELSE Len(LinesOf(text)) - 6

\* the characters of a context that are not message content: header,
\* separator, and marker, blanks, role label, colon and line feed per line
OverheadChars ==
  IF truncatedMessages = <<>> THEN 0
  ELSE LET labelLengths ==
             [k \in 1..Len(truncatedMessages) |->
                IF truncatedMessages[k].role = "user" THEN 4 ELSE 9]
           total[k \in 0..Len(truncatedMessages)] ==
             IF k = 0 THEN 0 ELSE total[k - 1] + labelLengths[k] + 5
       IN  23 + total[Len(truncatedMessages)] + 6

\* C14: getContextStats reports the length of the history, the length of
\* the selector output, the length of the budgeter output, which is the
\* number of message lines buildOptimizedContext emits for the same inputs,
\* and the sum of the content lengths of the budgeted messages; the three
\* counts are in decreasing order.
C14_StatsMatchPipeline ==
  (pc = "done" /\ stats # <<>>) =>
    LET s == stats[1]
    IN  /\ s.totalMessages = Len(conversationHistory)
        /\ s.relevantMessages = Len(relevantMessages)
        /\ s.includedMessages = Len(truncatedMessages)
        /\ s.includedMessages = MessageLineCount(context)
        /\ s.totalChars = Len(context) - OverheadChars
        /\ s.includedMessages <= s.relevantMessages
        /\ s.relevantMessages <= s.totalMessages

\* statistics of a history of which a part is selected and a part of that
\* is left after budgeting
C14_Witness ==
  /\ pc = "done" /\ stats # <<>>
  /\ stats[1].includedMessages > 0
  /\ stats[1].includedMessages < stats[1].relevantMessages
  /\ stats[1].relevantMessages < stats[1].totalMessages

C15_ContextWithinBudget ==
  pc = "done" =>
    \/ Len(context) <= CONFIG.MAX_CONTEXT_CHARS
    \/ /\ relevantMessages # <<>>
       /\ Len(relevantMessages[Len(relevantMessages)].content) + 30
            > CONFIG.MAX_CONTEXT_CHARS

----------------------------------------------------------------------------
(* Properties of extractKeywords                                            *)

\* the prompt in lower case with every non-word character made a blank
NormalisedPrompt == replacePunctuation(toLowerCase(currentPrompt))

\* word is a maximal run of non-blank characters of text
OccursAsToken(text, word) ==
  /\ Len(word) > 0
  /\ \A j \in 1..Len(word) : ~IsSpace(word[j])
  /\ \E i \in 0..(Len(text) - Len(word)) :
       /\ \A j \in 1..Len(word) : text[i + j] = word[j]
       /\ i = 0 \/ IsSpace(text[i])
       /\ i + Len(word) = Len(text) \/ IsSpace(text[i + Len(word) + 1])

\* C9: extractKeywords returns at most 10 pairwise distinct lowercase tokens,
\* each of which occurs in the normalised prompt, has length >=
\* minKeywordLength, is no stop word and does not consist of digits only;
\* the empty prompt yields the empty list.
C9_KeywordsWellFormed ==
  pc = "extracted" =>
    /\ Len(keywords) <= 10
    /\ \A i, j \in 1..Len(keywords) : i # j => keywords[i] # keywords[j]
    /\ \A i \in 1..Len(keywords) :
         /\ \A j \in 1..Len(keywords[i]) : keywords[i][j] \notin UpperCaseLetters
         /\ OccursAsToken(NormalisedPrompt, keywords[i])
         /\ Len(keywords[i]) >= CONFIG.MIN_KEYWORD_LENGTH
         /\ Str(keywords[i]) \notin stopWords
         /\ \E j \in 1..Len(keywords[i]) : keywords[i][j] \notin Digits
    /\ currentPrompt = <<>> => keywords = <<>>

\* a prompt with more than 10 surviving tokens, with upper case, punctuation
\* and a number in it
C9_Witness ==
  /\ pc = "extracted"
  /\ Len(keywords) = 10
  /\ Cardinality(Range(keywordCandidates(currentPrompt, CONFIG))) > 10
  /\ \E i \in 1..Len(currentPrompt) : currentPrompt[i] \in UpperCaseLetters
  /\ \E i \in 1..Len(currentPrompt) : currentPrompt[i] = "!"
  /\ \E i \in 1..Len(currentPrompt) : currentPrompt[i] \in Digits

\* the surviving tokens that rank before word among the tokens of words:
\* more occurrences, or as many and an earlier first occurrence
FirstOccurrence(words, word) ==
  CHOOSE i \in 1..Len(words) :
    words[i] = word /\ \A j \in 1..(i - 1) : words[j] # word

Occurrences(words, word) == Cardinality({i \in 1..Len(words) : words[i] = word})

TokensBefore(words, word) ==
  {v \in Range(words) :
     \/ Occurrences(words, v) > Occurrences(words, word)
     \/ /\ Occurrences(words, v) = Occurrences(words, word)
        /\ FirstOccurrence(words, v) < FirstOccurrence(words, word)}

\* C10: extractKeywords counts each surviving token once per occurrence and
\* returns the surviving tokens by descending occurrence count, equal counts
\* in order of first occurrence, cut to the first 10; a surviving token is
\* left out only if 10 tokens rank before it.
C10_RankedByFrequency ==
  pc = "extracted" =>
    LET words == keywordCandidates(currentPrompt, CONFIG)
    IN  /\ \A i \in 1..Len(keywords) :
             /\ keywords[i] \in Range(words)
             /\ Cardinality(TokensBefore(words, keywords[i])) = i - 1
        /\ \A w \in Range(words) :
             (\A i \in 1..Len(keywords) : keywords[i] # w)
               => Cardinality(TokensBefore(words, w)) >= 10

----------------------------------------------------------------------------
(* Properties of calculateRelevance                                         *)

\* the content of the scored message in lower case
LowerCaseContent == toLowerCase(conversationHistory[1].content)

\* keyword is in the token set of the message, or occurs in its lower-case
\* content
Matches(keyword) ==
  \/ /\ OccursAsToken(replacePunctuation(LowerCaseContent), keyword)
     /\ Len(keyword) >= CONFIG.MIN_KEYWORD_LENGTH
  \/ \E i \in 0..(Len(LowerCaseContent) - Len(keyword)) :
        SubSeq(LowerCaseContent, i + 1, i + Len(keyword)) = keyword

MatchCount == Cardinality({i \in 1..Len(keywords) : Matches(keywords[i])})

\* C11: calculateRelevance returns 0 for the empty keyword list and otherwise
\* the number of keywords that are in the token set of the message or occur
\* in its lower-case content, divided by the number of keywords; the value
\* is a number between 0 and 1.
C11_ScoreIsMatchFraction ==
  pc \in {"scored", "rescored"} =>
    LET s == relevance[1]
    IN  /\ s.d > 0
        /\ 0 <= s.n /\ s.n <= s.d
        /\ keywords = <<>> => s.n = 0
        /\ keywords # <<>> => s.n * Len(keywords) = MatchCount * s.d

\* a score strictly between 0 and 1 with a keyword that occurs inside a
\* word of the message only
C11_Witness ==
  /\ pc = "scored"
  /\ relevance[1].n > 0 /\ relevance[1].n < relevance[1].d
  /\ \E i \in 1..Len(keywords) :
       /\ Matches(keywords[i])
       /\ ~OccursAsToken(replacePunctuation(LowerCaseContent), keywords[i])

\* keyword is a token of the message of at least MIN_KEYWORD_LENGTH
\* characters
InTokenSet(keyword) ==
  /\ OccursAsToken(replacePunctuation(LowerCaseContent), keyword)
  /\ Len(keyword) >= CONFIG.MIN_KEYWORD_LENGTH

\* keyword occurs in the lower-case content of the message
IsSubstring(keyword) ==
  \E i \in 0..(Len(LowerCaseContent) - Len(keyword)) :
     \A j \in 1..Len(keyword) : LowerCaseContent[i + j] = keyword[j]

SubstringCount == Cardinality({i \in 1..Len(keywords) : IsSubstring(keywords[i])})

\* C22: a keyword in the token set of the message also occurs in its
\* lower-case content, so the score is the number of keywords that occur in
\* the content divided by the number of keywords; a keyword inside a longer
\* word counts.
C22_SubstringTestDecides ==
  pc \in {"scored", "rescored"} =>
    /\ \A word \in RelevanceKeywords : InTokenSet(word) => IsSubstring(word)
    /\ \A word \in messageWords(LowerCaseContent, CONFIG) : IsSubstring(word)
    /\ keywords # <<>> =>
         relevance[1].n * Len(keywords) = SubstringCount * relevance[1].d

\* the message "Start-up!" scored for "art", which is within its token
\* "start", and for "start", which is a token
C22_Witness ==
  /\ pc = "scored"
  /\ \E i \in 1..Len(keywords) : InTokenSet(keywords[i])
  /\ \E i \in 1..Len(keywords) :
       /\ IsSubstring(keywords[i]) /\ ~InTokenSet(keywords[i])
       /\ \E word \in RelevanceKeywords :
            /\ InTokenSet(word) /\ Len(word) > Len(keywords[i])
            /\ includes(word, keywords[i])
  /\ relevance[1].n = Len(keywords)

\* C12: one more keyword that matches the message never lowers its score.
C12_MonotonicInMatches ==
  [][(pc = "scored" /\ pc' = "rescored" /\ Matches(keywords'[Len(keywords')]))
       => AtLeast(relevance'[1], relevance[1])]_vars

\* a matching keyword, already in the list, was added to a list whose score
\* was below 1
C12_Witness ==
  /\ pc = "rescored"
  /\ Len(keywords) > 1
  /\ Matches(keywords[Len(keywords)])
  /\ \E i \in 1..(Len(keywords) - 1) : keywords[i] = keywords[Len(keywords)]
  /\ \E i \in 1..(Len(keywords) - 1) : ~Matches(keywords[i])

----------------------------------------------------------------------------
(* Properties of the conversation store                                     *)

\* the rows stored under the key of the getHistory call
KeyRows ==
  {r \in db.messages : r.user_id = rows[1].userId /\ r.channel_id = rows[1].channelId}

Minimum(a, b) == IF a < b THEN a ELSE b

\* C18: getHistory(userId, channelId, N) returns messages stored under that
\* key only, each as role, content and time stamp; it returns min(N, count)
\* of them, none with a time stamp below that of a message it leaves out,
\* the oldest first.
C18_NewestOfKeyOldestFirst ==
  rows # <<>> =>
    LET result == rows[1].result
        count == Len(result)
    IN  /\ count = Minimum(rows[1].limit, Cardinality(KeyRows))
        /\ \A i \in 1..count :
             /\ DOMAIN result[i] = {"role", "content", "timestamp"}
             /\ Cardinality({j \in 1..count : result[j] = result[i]})
                  <= Cardinality({r \in KeyRows :
                                    /\ r.role = result[i].role
                                    /\ r.content = result[i].content
                                    /\ r.timestamp = result[i].timestamp})
        /\ \A t \in 0..MaxClock :
             Cardinality({j \in 1..count : result[j].timestamp > t})
               = Minimum(count, Cardinality({r \in KeyRows : r.timestamp > t}))
        /\ \A i \in 1..(count - 1) : result[i].timestamp <= result[i + 1].timestamp

\* a key that holds more messages than the limit: an older message is left
\* out of the result
C18_Witness ==
  /\ rows # <<>>
  /\ rows[1].limit > 0
  /\ Cardinality(KeyRows) > rows[1].limit
  /\ \E r \in KeyRows : r.timestamp < rows[1].result[1].timestamp

----------------------------------------------------------------------------
(* Properties of the /translate command                                     *)

\* the position of a step in the log of a request, 0 if it was not taken
Position(request, step) ==
  IF \E k \in 1..Len(request.log) : request.log[k] = step
  THEN CHOOSE k \in 1..Len(request.log) : request.log[k] = step
  ELSE 0

Took(request, step) == Position(request, step) > 0

\* C17: a failure while the context is built is not fatal: the prompt goes to
\* the LLM without context, so an error message is posted only after the
\* LLM was called.
C17_ContextFailureNotFatal ==
  \A i \in 1..Len(requests) :
     (requests[i].fault # "none" /\ Took(requests[i], "post error"))
       => Took(requests[i], "call LLM")

\* the steps of a run in the order the claim gives them
StepOrder ==
  <<"read history", "append user", "call LLM", "append assistant", "post answer">>

\* the rows of the key of a request, and those added before row id
RowsOfKey(request) ==
  {r \in db.messages :
     r.user_id = request.user_id /\ r.channel_id = request.channel_id}

RowsBefore(request, id) == {r \in RowsOfKey(request) : r.id < id}

\* generate was called and threw
GenerationThrew(request) ==
  /\ Took(request, "append user")
  /\ request.step \notin {"generating"}
  /\ request.answer = <<>>

\* C19: in a run of processTranslateCommand the steps read history, append
\* user message, call LLM, append assistant message, post answer are taken
\* in this order, each after all the ones before it.  The snapshot given to
\* the LLM is the history as it was before the command's own user message
\* was added.  An assistant message is added only after the user message and
\* only when generation returned; when generation throws, none is added,
\* no answer is posted and the error message is posted.
C19_StepOrder ==
  \A i \in 1..Len(requests) :
     LET r == requests[i]
     IN  /\ \A k \in 1..Len(r.log), l \in 1..Len(r.log) :
              r.log[k] = r.log[l] => k = l
         /\ \A k \in 2..Len(StepOrder) :
              Took(r, StepOrder[k]) =>
                /\ Took(r, StepOrder[k - 1])
                /\ Position(r, StepOrder[k - 1]) < Position(r, StepOrder[k])
         /\ r.userRow # 0 =>
              /\ Len(r.history) = Minimum(HistoryLimit,
                                          Cardinality(RowsBefore(r, r.userRow)))
              /\ \A k \in 1..Len(r.history) :
                   \E row \in RowsBefore(r, r.userRow) :
                      /\ row.role = r.history[k].role
                      /\ row.content = r.history[k].content
                      /\ row.timestamp = r.history[k].timestamp
         /\ r.assistantRow # 0 =>
              /\ r.userRow # 0 /\ r.userRow < r.assistantRow
              /\ r.answer # <<>>
         /\ GenerationThrew(r) =>
              /\ r.assistantRow = 0
              /\ ~Took(r, "append assistant")
              /\ ~Took(r, "post answer")
              /\ Took(r, "post error")

\* a command answered after an earlier one of the same user, and a command
\* whose generation threw
C19_Witness ==
  \E i, j \in 1..Len(requests) :
     /\ requests[i].step = "done"
     /\ requests[i].assistantRow # 0
     /\ requests[i].history # <<>>
     /\ Took(requests[j], "call LLM")
     /\ GenerationThrew(requests[j])

\* the place of row id among the rows of its key
PlaceInKey(request, id) == Cardinality(RowsBefore(request, id)) + 1

\* C20: the store is used by one command of a conversation at a time: in
\* the table every user message is directly followed, among the rows of its
\* key, by the reply to it, and no other command of the key has read its
\* history between the two.
C20_SerializedPerConversation ==
  \A i \in 1..Len(requests) :
     LET r == requests[i]
     IN  r.assistantRow # 0 =>
           /\ PlaceInKey(r, r.assistantRow) = PlaceInKey(r, r.userRow) + 1
           /\ \A j \in 1..Len(requests) :
                (/\ j # i
                 /\ requests[j].user_id = r.user_id
                 /\ requests[j].channel_id = r.channel_id
                 /\ Took(requests[j], "read history"))
                  => ~(/\ PlaceInKey(r, r.userRow) <= Len(requests[j].history)
                       /\ Len(requests[j].history) < PlaceInKey(r, r.assistantRow))

\* the number of rows the /translate commands have added
TranslateRows ==
  Cardinality({i \in 1..Len(requests) : requests[i].userRow # 0})
    + Cardinality({i \in 1..Len(requests) : requests[i].assistantRow # 0})

Settings ==
  {"MAX_CONTEXT_CHARS", "MIN_RECENT_MESSAGES", "MAX_RELEVANT_OLDER",
   "MIN_KEYWORD_LENGTH", "RELEVANCE_THRESHOLD"}

Defaults ==
  [MAX_CONTEXT_CHARS   |-> [n |-> 4000, d |-> 1],
   MIN_RECENT_MESSAGES |-> [n |-> 3, d |-> 1],
   MAX_RELEVANT_OLDER  |-> [n |-> 3, d |-> 1],
   MIN_KEYWORD_LENGTH  |-> [n |-> 4, d |-> 1],
   RELEVANCE_THRESHOLD |-> [n |-> 3, d |-> 10]]

\* a setting of CONFIG as a fraction
Configured(name) ==
  IF name = "RELEVANCE_THRESHOLD" THEN CONFIG[name]
  ELSE [n |-> CONFIG[name], d |-> 1]

\* C23: each of the five settings createConfig produces equals the number
\* given in its environment variable whenever the variable holds a number,
\* 0 included, and is the default (4000, 3, 3, 4, 0.3) when the variable is
\* absent or not a number.
C23_SettingsFollowEnvironment ==
  pc = "configured" =>
    \A name \in Settings :
      /\ env[name].kind = "number" =>
           Configured(name).n * env[name].d = env[name].n * Configured(name).d
      /\ env[name].kind # "number" =>
           /\ Configured(name).n = Defaults[name].n
           /\ Configured(name).d = Defaults[name].d

====
